---- MODULE Spec2Model ----
(***************************************************************************)
(* spObjectStore<T> (version 2.1.1): a container of (id, object) pairs     *)
(* kept in two parallel vectors, optionally sorted by id (ASC / DESC) or   *)
(* by a compare callback over the objects.                                 *)
(*                                                                         *)
(* Ids are std::string values, modelled as sequences of character codes.   *)
(* The stored class T is the examples' class city, cut down to the members *)
(* the callbacks read: a string (key) and a number (inhabitants).          *)
(* A pointer &_objects[_index] returned by an operation is modelled by the *)
(* position _index, nullptr by -1.                                         *)
(***************************************************************************)
EXTENDS Integers, Sequences, FiniteSets, TLC

VARIABLES _ids, _objects, _index, _capaInc, _compareCB, _added, _sorting,
          _idSep, _autoId, _idNumDigits, _idNumDecimals, _createIdCB, capacity,
          last, watch, held, traced, v1

vars == <<_ids, _objects, _index, _capaInc, _compareCB, _added, _sorting,
          _idSep, _autoId, _idNumDigits, _idNumDecimals, _createIdCB, capacity,
          last, watch, held, traced, v1>>

\* the variables of the store of version 2 and of its calls
v2vars == <<_ids, _objects, _index, _capaInc, _compareCB, _added, _sorting,
            _idSep, _autoId, _idNumDigits, _idNumDecimals, _createIdCB, capacity,
            last, watch, held, traced>>

(* ------------------------------ bounds --------------------------------- *)

\* most entries the store holds in the model
MaxSize == 2

\* most ids taken from the _autoId counter in the model
MaxAuto == 2

\* the most entries of the stores that are searched
MaxSearch == 4

(* --------------------------- program constants ------------------------- *)

AutoIdBase == 10000
DefaultCapaInc == 10

\* version 1 of the header: the initializer of _capaInc and the literal that
\* setAdded adds to the size when it reserves
V1_DefaultCapaInc == 10
V1_ReserveInc == 10
UintDigits == 8
DefaultIdNumDigits == 8
DefaultIdNumDecimals == 6

\* "#/#"
DefaultIdSep == <<35, 47, 35>>

(* ------------------------------ strings -------------------------------- *)

\* the byte of s at 1-based position i, 0 (the terminator) past the end
CharAt(s, i) == IF i <= Len(s) THEN s[i] ELSE 0

RECURSIVE StrCmpFrom(_, _, _)
StrCmpFrom(s, t, i) ==
  IF CharAt(s, i) # CharAt(t, i) THEN CharAt(s, i) - CharAt(t, i)
  ELSE IF CharAt(s, i) = 0 THEN 0
  ELSE StrCmpFrom(s, t, i + 1)

\* strcmp(s, t): <0, 0, >0
StrCmp(s, t) == StrCmpFrom(s, t, 1)

\* the decimal digits of n as character codes, most significant first
RECURSIVE Digits(_)
Digits(n) == IF n < 10 THEN <<48 + n>> ELSE Append(Digits(n \div 10), 48 + (n % 10))

RECURSIVE ZeroPad(_, _)
ZeroPad(s, width) == IF Len(s) >= width THEN s ELSE ZeroPad(<<48>> \o s, width)

\* stringify(const uint64_t&): snprintf "%0*llu" with width 8
StringifyUnsigned(value) == ZeroPad(Digits(value), UintDigits)

\* stringify(const std::string&)
StringifyString(value) == value

(* ------------------------------ domains -------------------------------- *)

\* the strings "", "a" and "b"
EmptyId == <<>>
IdA == <<97>>
IdB == <<98>>

\* ids a caller passes in: "" and "a"; "b" and the auto ids enter the store
\* through createId
UserIds == {EmptyId, IdA}

\* objects a caller can construct: two with equal inhabitants and different key,
\* two with equal key and different inhabitants
Objs == {[key |-> IdA, inhabitants |-> 0], [key |-> IdB, inhabitants |-> 0], [key |-> IdB, inhabitants |-> 1]}

\* stands for a null T* argument
NoObj == [key |-> <<>>, inhabitants |-> -1]

NoCB == "nullptr"
CompareCBs == {"compareObj3"}
CreateIdCBs == {"createId_2"}
Sortings == {"None", "ASC", "DESC"}

\* the compare callbacks of the examples; the uint32_t difference, converted to
\* int32_t, is the integer difference for members below 2^31
CallCompareCB(cb, obj1, obj2) ==
  CASE cb = "compareObj3" -> obj2.inhabitants - obj1.inhabitants

\* the create-id callbacks of the examples
CallCreateIdCB(cb, obj) ==
  CASE cb = "createId_2" -> StringifyString(obj.key)

(* ------------------------- the store as a value ------------------------ *)

This ==
  [ids |-> _ids, objects |-> _objects, index |-> _index, capaInc |-> _capaInc,
   compareCB |-> _compareCB, added |-> _added, sorting |-> _sorting,
   autoId |-> _autoId, createIdCB |-> _createIdCB, capacity |-> capacity,
   idSep |-> _idSep, idNumDigits |-> _idNumDigits, idNumDecimals |-> _idNumDecimals]

InsertAt(seq, pos, e) == SubSeq(seq, 1, pos) \o <<e>> \o SubSeq(seq, pos + 1, Len(seq))
EraseAt(seq, pos) == SubSeq(seq, 1, pos) \o SubSeq(seq, pos + 2, Len(seq))
Range(seq) == {seq[i] : i \in 1..Len(seq)}

isSorted(S) == (S.compareCB # NoCB) \/ (S.sorting # "None")

\* compareIds without the inversion for DESC
Mut_compareIds_NoDesc(S, id1, id2) == StrCmp(id1, id2)

compareIds(S, id1, id2) ==
  LET cmpRes == StrCmp(id1, id2)
  IN  IF S.sorting = "DESC" THEN cmpRes * (-1) ELSE cmpRes

\* cmpRes of one probe of the binary search at 0-based position sIdx
ProbeCmp(S, sIdx, id, obj) ==
  IF (S.compareCB = NoCB) \/ (obj = NoObj)
  THEN compareIds(S, S.ids[sIdx + 1], id)
  ELSE LET cmpRes == CallCompareCB(S.compareCB, S.objects[sIdx + 1], obj)
       IN  IF (cmpRes = 0) /\ (Len(id) > 0)
           THEN compareIds(S, S.ids[sIdx + 1], id)
           ELSE cmpRes

\* the while loop of indexOf leaving the end as insert position on a miss
RECURSIVE Mut_LowerBound_MissAtEnd(_, _, _, _, _)
Mut_LowerBound_MissAtEnd(S, first, count, id, obj) ==
  IF count > 0
  THEN LET step == count \div 2
           sIdx == first + step
           cmpRes == ProbeCmp(S, sIdx, id, obj)
       IN  IF cmpRes < 0 THEN Mut_LowerBound_MissAtEnd(S, sIdx + 1, count - (step + 1), id, obj)
           ELSE IF cmpRes = 0 THEN [ret |-> sIdx, index |-> sIdx]
           ELSE Mut_LowerBound_MissAtEnd(S, first, step, id, obj)
  ELSE [ret |-> -1, index |-> Len(S.ids)]

\* the while loop of indexOf: [ret, index]
RECURSIVE LowerBound(_, _, _, _, _)
LowerBound(S, first, count, id, obj) ==
  IF count > 0
  THEN LET step == count \div 2
           sIdx == first + step
           cmpRes == ProbeCmp(S, sIdx, id, obj)
       IN  IF cmpRes < 0 THEN LowerBound(S, sIdx + 1, count - (step + 1), id, obj)
           ELSE IF cmpRes = 0 THEN [ret |-> sIdx, index |-> sIdx]
           ELSE LowerBound(S, first, step, id, obj)
  ELSE [ret |-> -1, index |-> first]

\* the while loop of indexOf narrowing the window by one entry only
RECURSIVE Mut_LowerBoundProbes_StepOne(_, _, _, _, _)
Mut_LowerBoundProbes_StepOne(S, first, count, id, obj) ==
  IF count > 0
  THEN LET cmpRes == ProbeCmp(S, first, id, obj)
       IN  IF cmpRes < 0 THEN 1 + Mut_LowerBoundProbes_StepOne(S, first + 1, count - 1, id, obj)
           ELSE 1
  ELSE 0

\* the number of entries the while loop of indexOf compares
RECURSIVE LowerBoundProbes(_, _, _, _, _)
LowerBoundProbes(S, first, count, id, obj) ==
  IF count > 0
  THEN LET step == count \div 2
           sIdx == first + step
           cmpRes == ProbeCmp(S, sIdx, id, obj)
       IN  IF cmpRes < 0 THEN 1 + LowerBoundProbes(S, sIdx + 1, count - (step + 1), id, obj)
           ELSE IF cmpRes = 0 THEN 1
           ELSE 1 + LowerBoundProbes(S, first, step, id, obj)
  ELSE 0

\* the number of entries the for loop of indexOf compares
RECURSIVE LinearScanProbes(_, _, _)
LinearScanProbes(S, i, id) ==
  IF i < Len(S.ids)
  THEN IF S.ids[i + 1] = id THEN 1 ELSE 1 + LinearScanProbes(S, i + 1, id)
  ELSE 0

\* the for loop of indexOf leaving the insert position at the front on a miss
RECURSIVE Mut_LinearScan_Front(_, _, _)
Mut_LinearScan_Front(S, i, id) ==
  IF i < Len(S.ids)
  THEN IF S.ids[i + 1] = id THEN [ret |-> i, index |-> i] ELSE Mut_LinearScan_Front(S, i + 1, id)
  ELSE [ret |-> -1, index |-> 0]

\* the for loop of indexOf running one step too far on a miss
RECURSIVE Mut_LinearScan_Overrun(_, _, _)
Mut_LinearScan_Overrun(S, i, id) ==
  IF i < Len(S.ids)
  THEN IF S.ids[i + 1] = id THEN [ret |-> i, index |-> i] ELSE Mut_LinearScan_Overrun(S, i + 1, id)
  ELSE [ret |-> -1, index |-> i + 1]

\* the for loop of indexOf: [ret, index]
RECURSIVE LinearScan(_, _, _)
LinearScan(S, i, id) ==
  IF i < Len(S.ids)
  THEN IF S.ids[i + 1] = id THEN [ret |-> i, index |-> i] ELSE LinearScan(S, i + 1, id)
  ELSE [ret |-> -1, index |-> i]

\* indexOf(id, obj): ret is the return value, index the value left in _index
indexOf(S, id, obj) ==
  LET count == Len(S.ids)
  IN  IF (S.index > -1) /\ (S.index < count) /\ (S.ids[S.index + 1] = id)
      THEN [ret |-> S.index, index |-> S.index]
      ELSE IF isSorted(S) THEN LowerBound(S, 0, count, id, obj)
      ELSE LinearScan(S, 0, id)

\* setCapacity reserving whatever is asked for, less than the capacity too
Mut_setCapacity_Always(S, newCapacity) == [S EXCEPT !.capacity = newCapacity]

\* reserve(n) on both vectors leaves them with capacity n
setCapacity(S, newCapacity) ==
  IF newCapacity > S.capacity THEN [S EXCEPT !.capacity = newCapacity] ELSE S

\* setAdded reporting an addition only when the capacity had to grow
Mut_setAdded_OnGrowth(S, added) ==
  IF ~added /\ ~S.added THEN S
  ELSE LET count == Len(S.ids)
       IN  IF added /\ (count + 2 > S.capacity)
           THEN setCapacity([S EXCEPT !.added = TRUE], count + S.capaInc)
           ELSE [S EXCEPT !.added = FALSE]

setAdded(S, added) ==
  IF ~added /\ ~S.added THEN S
  ELSE LET S1 == [S EXCEPT !.added = added]
           count == Len(S.ids)
       IN  IF added /\ (count + 2 > S.capacity)
           THEN setCapacity(S1, count + S.capaInc)
           ELSE S1

\* createId(obj): [id, store]
createId(S, obj) ==
  IF S.createIdCB # NoCB
  THEN [id |-> CallCreateIdCB(S.createIdCB, obj), store |-> S]
  ELSE [id |-> StringifyUnsigned(S.autoId), store |-> [S EXCEPT !.autoId = S.autoId + 1]]

\* addObjWithId(id, args...), obj being T(args...); the pointer returned is .index
addObjWithId(S, id, obj) ==
  LET r == indexOf(S, id, NoObj)
      S0 == [S EXCEPT !.index = r.index]
  IN  IF r.ret = -1
      THEN LET S1 == setAdded(S0, TRUE)
           IN  [S1 EXCEPT !.ids = InsertAt(S1.ids, S1.index, id),
                          !.objects = InsertAt(S1.objects, S1.index, obj)]
      ELSE LET S1 == setAdded(S0, FALSE)
           IN  [S1 EXCEPT !.objects[S1.index + 1] = obj]

\* setObjWithId(id, newObj); the pointer returned is .index
setObjWithId(S, id, newObj) ==
  LET r == indexOf(S, id, newObj)
      S0 == [S EXCEPT !.index = r.index]
  IN  IF r.ret = -1
      THEN LET S1 == setAdded(S0, TRUE)
           IN  [S1 EXCEPT !.ids = InsertAt(S1.ids, S1.index, id),
                          !.objects = InsertAt(S1.objects, S1.index, newObj)]
      ELSE LET S1 == setAdded(S0, FALSE)
           IN  [S1 EXCEPT !.objects[S1.index + 1] = newObj]

\* addObjFromArgs(args...), newObj being T(args...): [ret, store], ret -1 for nullptr
addObjFromArgs(S, newObj) ==
  LET c == createId(S, newObj)
      r == indexOf(c.store, c.id, newObj)
      S0 == [c.store EXCEPT !.index = r.index]
  IN  IF r.ret = -1
      THEN LET S1 == setAdded(S0, TRUE)
               S2 == [S1 EXCEPT !.ids = InsertAt(S1.ids, S1.index, c.id),
                                !.objects = InsertAt(S1.objects, S1.index, newObj)]
           IN  [ret |-> S2.index, id |-> c.id, store |-> S2]
      ELSE [ret |-> -1, id |-> c.id, store |-> S0]

\* getObjById clearing the added flag as the adding calls do on a hit
Mut_getObjById_SetAdded(S, id) ==
  LET r == indexOf(S, id, NoObj)
      S0 == setAdded([S EXCEPT !.index = r.index], FALSE)
  IN  IF r.ret > -1 THEN [ret |-> S0.index, store |-> S0] ELSE [ret |-> -1, store |-> S0]

\* getObjById(id): [ret, store], ret -1 for nullptr
getObjById(S, id) ==
  LET r == indexOf(S, id, NoObj)
      S0 == [S EXCEPT !.index = r.index]
  IN  IF r.ret > -1 THEN [ret |-> S0.index, store |-> S0] ELSE [ret |-> -1, store |-> S0]

\* deleteObjById erasing from _ids only
Mut_deleteObjById_IdsOnly(S, id) ==
  LET r == indexOf(S, id, NoObj)
      S0 == [S EXCEPT !.index = r.index]
  IN  IF r.ret = -1 THEN [ret |-> FALSE, store |-> S0]
      ELSE [ret |-> TRUE, store |-> [S0 EXCEPT !.ids = EraseAt(S0.ids, S0.index)]]

\* deleteObjById erasing at _index without looking at what indexOf returned
Mut_deleteObjById_NoCheck(S, id) ==
  LET r == indexOf(S, id, NoObj)
      S0 == [S EXCEPT !.index = r.index]
  IN  [ret |-> r.ret # -1,
       store |-> [S0 EXCEPT !.ids = EraseAt(S0.ids, S0.index),
                            !.objects = EraseAt(S0.objects, S0.index)]]

\* deleteObjById(id): [ret, store]
deleteObjById(S, id) ==
  LET r == indexOf(S, id, NoObj)
      S0 == [S EXCEPT !.index = r.index]
  IN  IF r.ret = -1 THEN [ret |-> FALSE, store |-> S0]
      ELSE [ret |-> TRUE,
            store |-> [S0 EXCEPT !.ids = EraseAt(S0.ids, S0.index),
                                 !.objects = EraseAt(S0.objects, S0.index)]]

\* deleteObjFromArgs(args...), obj being T(args...): [ret, store]
deleteObjFromArgs(S, obj) ==
  LET r == indexOf(S, EmptyId, obj)
      S0 == [S EXCEPT !.index = r.index]
  IN  IF r.ret = -1 THEN [ret |-> FALSE, store |-> S0]
      ELSE [ret |-> TRUE,
            store |-> [S0 EXCEPT !.ids = EraseAt(S0.ids, S0.index),
                                 !.objects = EraseAt(S0.objects, S0.index)]]

\* reset clearing _ids only
Mut_reset_IdsOnly(S) == [S EXCEPT !.ids = <<>>]

\* reset putting the sorting back to its default as well
Mut_reset_ClearsSorting(S) == [S EXCEPT !.ids = <<>>, !.objects = <<>>, !.sorting = "None"]

\* reset starting the auto ids anew
Mut_reset_RestartsAutoId(S) == [S EXCEPT !.ids = <<>>, !.objects = <<>>, !.autoId = AutoIdBase]

reset(S) == [S EXCEPT !.ids = <<>>, !.objects = <<>>]

getSize(S) == Len(S.ids)

\* getObjFromArgs(args...), obj being T(args...): [ret, store], ret -1 for nullptr
getObjFromArgs(S, obj) ==
  LET r == indexOf(S, EmptyId, obj)
      S0 == [S EXCEPT !.index = r.index]
  IN  IF r.ret > -1 THEN [ret |-> S0.index, store |-> S0] ELSE [ret |-> -1, store |-> S0]

\* getIdFromArgs(args...), obj being T(args...): [ret, store], ret the id or ""
getIdFromArgs(S, obj) ==
  LET r == indexOf(S, EmptyId, obj)
      S0 == [S EXCEPT !.index = r.index]
  IN  IF r.ret > -1 THEN [ret |-> S0.ids[S0.index + 1], store |-> S0]
      ELSE [ret |-> EmptyId, store |-> S0]

getCapacityInc(S) == S.capaInc

setCapacityInc(S, newInc) == IF newInc > 1 THEN [S EXCEPT !.capaInc = newInc] ELSE S

getIdSeparator(S) == S.idSep

setIdSeparator(S, separator) ==
  IF Len(separator) > 0 THEN [S EXCEPT !.idSep = separator] ELSE S

getIdNumDecimals(S) == S.idNumDecimals

setIdNumDecimals(S, decimals) ==
  IF decimals > 0 THEN [S EXCEPT !.idNumDecimals = decimals] ELSE S

getIdNumDigits(S) == S.idNumDigits

\* setIdNumDigits taking any number, 0 too
Mut_setIdNumDigits_NoCheck(S, digits) == [S EXCEPT !.idNumDigits = digits]

setIdNumDigits(S, digits) ==
  IF digits > 0 THEN [S EXCEPT !.idNumDigits = digits] ELSE S

\* stringify(const int64_t&): snprintf "%0*lld" with width _idNumDigits, the
\* sign of a negative value taking one place of the width
StringifySigned(S, value) ==
  IF value < 0 THEN <<45>> \o ZeroPad(Digits(0 - value), S.idNumDigits - 1)
  ELSE ZeroPad(Digits(value), S.idNumDigits)

\* stringify(const char&)
StringifyChar(value) == <<value>>

\* an argument of makeIdFromArgs is a record of its C++ type and its value;
\* stringify is the overload chosen for that type
Stringify(S, arg) ==
  CASE arg.type = "unsigned" -> StringifyUnsigned(arg.value)
    [] arg.type = "signed" -> StringifySigned(S, arg.value)
    [] arg.type = "string" -> StringifyString(arg.value)
    [] arg.type = "char" -> StringifyChar(arg.value)

\* makeIdFrom(), makeIdFrom(arg), makeIdFrom(arg, args...)
RECURSIVE makeIdFrom(_, _)
makeIdFrom(S, args) ==
  IF Len(args) = 0 THEN <<>>
  ELSE IF Len(args) = 1 THEN Stringify(S, args[1])
  ELSE Stringify(S, args[1]) \o S.idSep \o makeIdFrom(S, Tail(args))

\* makeIdFromArgs(args...): [id, store]
makeIdFromArgs(S, args) ==
  IF Len(args) > 0 THEN [id |-> makeIdFrom(S, args), store |-> S]
  ELSE [id |-> makeIdFrom(S, <<[type |-> "unsigned", value |-> S.autoId]>>),
        store |-> [S EXCEPT !.autoId = S.autoId + 1]]

\* a forEach callback is given by the number of the invocation at which it
\* returns false; one that is never invoked that often always returns true
ForEachCBs == 1..(MaxSize + 1)

CallForEachCB(cb, n) == n # cb

\* the loop of forEach going on after the callback returned false
RECURSIVE Mut_ForEachLoop_NoBreak(_, _, _, _)
Mut_ForEachLoop_NoBreak(S, i, io, cb) ==
  IF i < Len(S.objects)
  THEN LET call == IF io THEN <<S.ids[i + 1], S.objects[i + 1]>> ELSE <<S.objects[i + 1]>>
       IN  <<call>> \o Mut_ForEachLoop_NoBreak(S, i + 1, io, cb)
  ELSE <<>>

\* the for loop of forEach from 0-based position i on: the argument lists of the
\* callback invocations it makes, in order; io tells the (id, obj) form
RECURSIVE ForEachLoop(_, _, _, _)
ForEachLoop(S, i, io, cb) ==
  IF i < Len(S.objects)
  THEN LET call == IF io THEN <<S.ids[i + 1], S.objects[i + 1]>> ELSE <<S.objects[i + 1]>>
       IN  IF CallForEachCB(cb, i + 1) = FALSE THEN <<call>>
           ELSE <<call>> \o ForEachLoop(S, i + 1, io, cb)
  ELSE <<>>

\* forEach(spos_forEach_O_callback)
forEach_O(S, cb) == ForEachLoop(S, 0, FALSE, cb)

\* forEach(spos_forEach_IO_callback)
forEach_IO(S, cb) == ForEachLoop(S, 0, TRUE, cb)

isAdded(S) == S.added

\* the re-insertion loop of recreate, from 1-based position i on
RECURSIVE RecreateLoop(_, _, _, _, _)
RecreateLoop(S, old_ids, old_objects, i, preserveIds) ==
  IF i > Len(old_objects) THEN S
  ELSE IF preserveIds
       THEN RecreateLoop(setObjWithId(S, old_ids[i], old_objects[i]),
                         old_ids, old_objects, i + 1, preserveIds)
       ELSE LET c == createId(S, old_objects[i])
            IN  RecreateLoop(setObjWithId(c.store, c.id, old_objects[i]),
                             old_ids, old_objects, i + 1, preserveIds)

\* the stores the re-insertion loop of recreate goes through, from 1-based
\* position i on: the store before each setObjWithId and the one it ends with
RECURSIVE RecreateTrail(_, _, _, _, _)
RecreateTrail(S, old_ids, old_objects, i, preserveIds) ==
  IF i > Len(old_objects) THEN <<S>>
  ELSE IF preserveIds
       THEN <<S>> \o RecreateTrail(setObjWithId(S, old_ids[i], old_objects[i]),
                                   old_ids, old_objects, i + 1, preserveIds)
       ELSE LET c == createId(S, old_objects[i])
            IN  <<S>> \o RecreateTrail(setObjWithId(c.store, c.id, old_objects[i]),
                                       old_ids, old_objects, i + 1, preserveIds)

\* the stores recreate goes through, the one it is called on not counted
recreateTrail(S, preserveIds) ==
  LET count == Len(S.ids)
  IN  IF count > 0
      THEN RecreateTrail(setCapacity(reset(S), count + S.capaInc),
                         IF preserveIds THEN S.ids \o S.ids ELSE S.ids, S.objects, 1, preserveIds)
      ELSE <<>>

recreate(S, preserveIds) ==
  LET count == Len(S.ids)
  IN  IF count > 0
      THEN LET old_ids == IF preserveIds THEN S.ids \o S.ids ELSE S.ids
               old_objects == S.objects
               S1 == setCapacity(reset(S), count + S.capaInc)
           IN  RecreateLoop(S1, old_ids, old_objects, 1, preserveIds)
      ELSE S

\* setSorting storing the mode without the recreate pass
Mut_setSorting_NoRecreate(S, sorting) == [S EXCEPT !.sorting = sorting]

\* setSorting going through with the mode the store already has
Mut_setSorting_NoEarlyReturn(S, sorting) ==
  LET S1 == [S EXCEPT !.sorting = sorting]
  IN  IF sorting # "None" THEN recreate(S1, TRUE) ELSE S1

setSorting(S, sorting) ==
  IF sorting = S.sorting THEN S
  ELSE LET S1 == [S EXCEPT !.sorting = sorting]
       IN  IF sorting # "None" THEN recreate(S1, TRUE) ELSE S1

\* the guard &_compareCB == &callback compares the address of the member with
\* that of the by-value parameter, which never agree: the body always runs
setCompareCallback(S, callback) == recreate([S EXCEPT !.compareCB = callback], TRUE)

\* setCreateIdCallback rebuilding with the ids preserved
Mut_setCreateIdCallback_Preserve(S, callback) == recreate([S EXCEPT !.createIdCB = callback], TRUE)

\* as above, the guard &_createIdCB == &callback never holds
setCreateIdCallback(S, callback) == recreate([S EXCEPT !.createIdCB = callback], FALSE)

(* ------------------- version 1 of the header (spObjectStore.h) ---------- *)

\* a store of version 1 is a record of its members: _keys, _objects, _index,
\* _capaInc, _compareCB, _sorted, _added, the capacity of the two vectors, and
\* ctor, the constructor call that made it
V1_Ctors == {"spObjectStore()", "spObjectStore(true)", "spObjectStore(false)",
             "spObjectStore(callback)"}

\* the callbacks on two keys: compareIdsCB orders them Z to A
V1_CompareCBs == {"compareIdsCB"}
V1_CallCompareCB(cb, key1, key2) ==
  CASE cb = "compareIdsCB" -> StrCmp(key2, key1)

\* the object made without arguments, T()
V1_DefaultObj == [key |-> EmptyId, inhabitants |-> 0]

\* the three constructors; the one with the bool parameter does not read it
V1_Construct(ctor) ==
  [keys |-> <<>>, objects |-> <<>>, index |-> -1, capaInc |-> V1_DefaultCapaInc,
   compareCB |-> IF ctor = "spObjectStore(callback)" THEN "compareIdsCB" ELSE NoCB,
   sorted |-> (ctor # "spObjectStore()"), added |-> FALSE, capacity |-> 0,
   ctor |-> ctor]

\* the while loop of indexOfId: [ret, index]
RECURSIVE V1_LowerBound(_, _, _, _)
V1_LowerBound(V, first, count, id) ==
  IF count > 0
  THEN LET step == count \div 2
           sIdx == first + step
           cmpRes == IF V.compareCB = NoCB THEN StrCmp(V.keys[sIdx + 1], id)
                     ELSE V1_CallCompareCB(V.compareCB, V.keys[sIdx + 1], id)
       IN  IF cmpRes < 0 THEN V1_LowerBound(V, sIdx + 1, count - (step + 1), id)
           ELSE IF cmpRes = 0 THEN [ret |-> sIdx, index |-> sIdx]
           ELSE V1_LowerBound(V, first, step, id)
  ELSE [ret |-> -1, index |-> first]

\* the for loop of indexOfId from 0-based position i on: [ret, index]
RECURSIVE V1_LinearScan(_, _, _)
V1_LinearScan(V, i, id) ==
  IF i < Len(V.keys)
  THEN IF V.keys[i + 1] = id THEN [ret |-> i, index |-> i]
       ELSE V1_LinearScan(V, i + 1, id)
  ELSE [ret |-> -1, index |-> i]

\* [ret, index]: what indexOfId returns and what it leaves in _index
indexOfId(V, id) ==
  LET count == Len(V.keys)
  IN  IF (V.index > -1) /\ (V.index < count) /\ (V.keys[V.index + 1] = id)
      THEN [ret |-> V.index, index |-> V.index]
      ELSE IF V.sorted THEN V1_LowerBound(V, 0, count, id)
      ELSE V1_LinearScan(V, 0, id)

V1_setAdded(V, added) ==
  IF ~added /\ ~V.added THEN V
  ELSE LET count == Len(V.keys)
       IN  IF added /\ (count + 2 > V.capacity)
           THEN [V EXCEPT !.added = added, !.capacity = count + V1_ReserveInc]
           ELSE [V EXCEPT !.added = added]

\* the object that T(args...) makes: args is the object, or NoObj for no
\* arguments
V1_Emplaced(args) == IF args = NoObj THEN V1_DefaultObj ELSE args

\* the store after addObj(id, args...); the pointer returned is at index
addObj(V, id, args) ==
  LET r == indexOfId(V, id)
      V1 == V1_setAdded([V EXCEPT !.index = r.index], r.ret = -1)
  IN  IF V1.added
      THEN [V1 EXCEPT !.keys = InsertAt(V1.keys, V1.index, id),
                      !.objects = InsertAt(V1.objects, V1.index, V1_Emplaced(args))]
      ELSE IF args # NoObj
           THEN [V1 EXCEPT !.objects[V1.index + 1] = args]
           ELSE V1

\* [store, ret]: ret is the position the pointer returned points at, -1 for
\* nullptr
getObj(V, id, addIfNeeded, args) ==
  LET r == indexOfId(V, id)
      V1 == [V EXCEPT !.index = r.index]
  IN  IF r.ret > -1 THEN [store |-> V1_setAdded(V1, FALSE), ret |-> r.index]
      ELSE IF addIfNeeded
           THEN LET V2 == V1_setAdded(V1, TRUE)
                IN  [store |-> [V2 EXCEPT !.keys = InsertAt(V2.keys, V2.index, id),
                                          !.objects = InsertAt(V2.objects, V2.index,
                                                               V1_Emplaced(args))],
                     ret |-> V2.index]
           ELSE [store |-> V1_setAdded(V1, FALSE), ret |-> -1]

setObj(V, id, newObj) ==
  LET r == indexOfId(V, id)
      V1 == V1_setAdded([V EXCEPT !.index = r.index], r.ret = -1)
  IN  IF V1.added
      THEN [V1 EXCEPT !.keys = InsertAt(V1.keys, V1.index, id),
                      !.objects = InsertAt(V1.objects, V1.index, newObj)]
      ELSE [V1 EXCEPT !.objects[V1.index + 1] = newObj]

\* [store, ret]
deleteObj(V, id) ==
  LET r == indexOfId(V, id)
      V1 == [V EXCEPT !.index = r.index]
  IN  IF r.ret = -1 THEN [store |-> V1, ret |-> FALSE]
      ELSE [store |-> [V1 EXCEPT !.keys = EraseAt(V1.keys, V1.index),
                                 !.objects = EraseAt(V1.objects, V1.index)],
            ret |-> TRUE]

V1_reset(V) == [V EXCEPT !.keys = <<>>, !.objects = <<>>]

getCapaInc(V) == V.capaInc

setCapaInc(V, newInc) == IF newInc > 1 THEN [V EXCEPT !.capaInc = newInc] ELSE V

getAdded(V) == V.added

(* ------------------------------- actions -------------------------------- *)

\* the variables take the fields of the store value S
Becomes(S) ==
  /\ _ids' = S.ids
  /\ _objects' = S.objects
  /\ _index' = S.index
  /\ _capaInc' = S.capaInc
  /\ _compareCB' = S.compareCB
  /\ _added' = S.added
  /\ _sorting' = S.sorting
  /\ _autoId' = S.autoId
  /\ _createIdCB' = S.createIdCB
  /\ capacity' = S.capacity
  /\ _idSep' = S.idSep
  /\ _idNumDigits' = S.idNumDigits
  /\ _idNumDecimals' = S.idNumDecimals
  /\ v1' = v1

\* The history variables are no part of the store.  last records the call just
\* made, for the operations named in traced (fixed from the start), and is Idle
\* after any other; watch holds at most one id that deleteObjById removed and
\* that was not inserted since (recorded only if traced has "watch"); held holds
\* at most one pointer that a call returned for an id, as the id and the slot
\* &_objects[slot] it points at (recorded only if traced has "held").
Idle == [op |-> "-", id |-> EmptyId, obj |-> NoObj, ret |-> 0]

\* the calls that return a pointer to the entry of an id the caller gave
PointerOps == {"addObjWithId", "setObjWithId", "getObjById"}

\* the ids whose pointers are followed
HeldIds == {IdA}

\* the calls after which a pointer need not be valid, whatever id it was for
RelocatingOps == {"reset", "setSorting", "setCompareCallback", "setCreateIdCallback",
                  "deleteObjFromArgs"}

\* the values held may take after the call: the pointer is dropped when its
\* entry may have been deleted or the store rebuilt, and the first pointer
\* returned after that is the one that is kept
HeldAfter(op, id, ret) ==
  IF "held" \notin traced THEN {<<>>}
  ELSE IF op \in RelocatingOps THEN {<<>>}
  ELSE IF op = "deleteObjById" /\ ret = 1 THEN {SelectSeq(held, LAMBDA h : h.id # id)}
  ELSE IF op \in PointerOps /\ id \in HeldIds /\ ret # -1 /\ held = <<>>
       THEN {<<[id |-> id, slot |-> ret]>>}
  ELSE {held}

Called(op, id, obj, ret) ==
  /\ last' = IF op \in traced THEN [op |-> op, id |-> id, obj |-> obj, ret |-> ret] ELSE Idle
  /\ traced' = traced
  /\ held' \in HeldAfter(op, id, ret)

Unwatch(idSet) == watch' = SelectSeq(watch, LAMBDA w : w \notin idSet)

\* the store value S is within the bounds of the model
InBounds(S) == Len(S.ids) <= MaxSize /\ S.autoId <= AutoIdBase + MaxAuto

\* the constructors: spObjectStore(), spObjectStore(sorting), spObjectStore(callback)
InitStore ==
  /\ _ids = <<>>
  /\ _objects = <<>>
  /\ _index = -1
  /\ _capaInc = DefaultCapaInc
  /\ _added = FALSE
  /\ _autoId = AutoIdBase
  /\ _createIdCB = NoCB
  /\ capacity = 0
  /\ _idSep = DefaultIdSep
  /\ _idNumDigits = DefaultIdNumDigits
  /\ _idNumDecimals = DefaultIdNumDecimals
  /\ \/ _sorting \in Sortings /\ _compareCB = NoCB
     \/ _sorting = "None" /\ _compareCB \in CompareCBs
  /\ last = Idle
  /\ watch = <<>>
  /\ held = <<>>
  /\ v1 = V1_Construct("spObjectStore()")

AddObjWithId ==
  \E id \in UserIds, obj \in Objs :
    LET S == addObjWithId(This, id, obj)
    IN  /\ InBounds(S)
        /\ Becomes(S)
        /\ Called("addObjWithId", id, obj, S.index)
        /\ Unwatch({id})

SetObjWithId ==
  \E id \in UserIds, obj \in Objs :
    LET S == setObjWithId(This, id, obj)
    IN  /\ InBounds(S)
        /\ Becomes(S)
        /\ Called("setObjWithId", id, obj, S.index)
        /\ Unwatch({id})

AddObjFromArgs ==
  \E obj \in Objs :
    LET r == addObjFromArgs(This, obj)
    IN  /\ InBounds(r.store)
        /\ Becomes(r.store)
        /\ Called("addObjFromArgs", r.id, obj, r.ret)
        /\ Unwatch(IF r.ret = -1 THEN {} ELSE {r.id})

GetObjById ==
  \E id \in UserIds :
    LET r == getObjById(This, id)
    IN  /\ Becomes(r.store)
        /\ Called("getObjById", id, NoObj, r.ret)
        /\ UNCHANGED watch

DeleteObjById ==
  \E id \in UserIds :
    LET r == deleteObjById(This, id)
    IN  /\ Becomes(r.store)
        /\ Called("deleteObjById", id, NoObj, IF r.ret THEN 1 ELSE 0)
        /\ watch' \in IF r.ret /\ "watch" \in traced THEN {watch, <<id>>} ELSE {watch}

DeleteObjFromArgs ==
  \E obj \in Objs :
    LET r == deleteObjFromArgs(This, obj)
    IN  /\ Becomes(r.store)
        /\ Called("deleteObjFromArgs", EmptyId, obj, IF r.ret THEN 1 ELSE 0)
        /\ UNCHANGED watch

ForEach_O ==
  \E cb \in ForEachCBs :
    /\ Becomes(This)
    /\ Called("forEach_O", EmptyId, NoObj, Len(forEach_O(This, cb)))
    /\ UNCHANGED watch

ForEach_IO ==
  \E cb \in ForEachCBs :
    /\ Becomes(This)
    /\ Called("forEach_IO", EmptyId, NoObj, Len(forEach_IO(This, cb)))
    /\ UNCHANGED watch

Reset ==
  /\ Becomes(reset(This))
  /\ Called("reset", EmptyId, NoObj, 0)
  /\ UNCHANGED watch

SetSorting ==
  \E sorting \in Sortings :
    /\ Becomes(setSorting(This, sorting))
    /\ Called("setSorting", EmptyId, NoObj, 0)
    /\ UNCHANGED watch

SetCompareCallback ==
  \E callback \in CompareCBs \cup {NoCB} :
    /\ Becomes(setCompareCallback(This, callback))
    /\ Called("setCompareCallback", EmptyId, NoObj, 0)
    /\ UNCHANGED watch

SetCreateIdCallback ==
  \E callback \in CreateIdCBs \cup {NoCB} :
    LET S == setCreateIdCallback(This, callback)
    IN  /\ InBounds(S)
        /\ Becomes(S)
        /\ Called("setCreateIdCallback", EmptyId, NoObj, 0)
        /\ Unwatch(Range(S.ids))

\* the increments given to setCapacityInc
NewIncs == {0, 1, 2, 3}

SetCapacityInc ==
  \E newInc \in NewIncs :
    /\ Becomes(setCapacityInc(This, newInc))
    /\ Called("setCapacityInc", EmptyId, NoObj, newInc)
    /\ UNCHANGED watch

\* the separators given to setIdSeparator: "" and "-"
Separators == {EmptyId, <<45>>}

SetIdSeparator ==
  \E separator \in Separators :
    /\ Becomes(setIdSeparator(This, separator))
    /\ Called("setIdSeparator", separator, NoObj, 0)
    /\ UNCHANGED watch

\* the numbers of decimals given to setIdNumDecimals
DecimalWidths == {0, 2}

SetIdNumDecimals ==
  \E decimals \in DecimalWidths :
    /\ Becomes(setIdNumDecimals(This, decimals))
    /\ Called("setIdNumDecimals", EmptyId, NoObj, decimals)
    /\ UNCHANGED watch

\* the numbers of digits given to setIdNumDigits
DigitWidths == {0, 3, 10}

SetIdNumDigits ==
  \E digits \in DigitWidths :
    /\ Becomes(setIdNumDigits(This, digits))
    /\ Called("setIdNumDigits", EmptyId, NoObj, digits)
    /\ UNCHANGED watch

\* arguments of makeIdFromArgs, by their C++ types
Signed(n) == [type |-> "signed", value |-> n]
Unsigned(n) == [type |-> "unsigned", value |-> n]
String(s) == [type |-> "string", value |-> s]
Char(c) == [type |-> "char", value |-> c]

\* the argument lists given to makeIdFromArgs: (), (42, "x"), ("text", 1234),
\* (42u) and (-7, 'c', 5u)
MakeIdArgs ==
  << <<>>,
     <<Signed(42), String(<<120>>)>>,
     <<String(<<116, 101, 120, 116>>), Signed(1234)>>,
     <<Unsigned(42)>>,
     <<Signed(-7), Char(99), Unsigned(5)>> >>

\* the call is recorded with the place of its argument list in MakeIdArgs
MakeIdFromArgs ==
  \E k \in 1..Len(MakeIdArgs) :
    LET r == makeIdFromArgs(This, MakeIdArgs[k])
    IN  /\ InBounds(r.store)
        /\ Becomes(r.store)
        /\ Called("makeIdFromArgs", r.id, NoObj, k)
        /\ UNCHANGED watch

GetObjFromArgs ==
  \E obj \in Objs :
    LET r == getObjFromArgs(This, obj)
    IN  /\ Becomes(r.store)
        /\ Called("getObjFromArgs", EmptyId, obj, r.ret)
        /\ UNCHANGED watch

GetIdFromArgs ==
  \E obj \in Objs :
    LET r == getIdFromArgs(This, obj)
    IN  /\ Becomes(r.store)
        /\ Called("getIdFromArgs", r.ret, obj, 0)
        /\ UNCHANGED watch

\* a store of up to MaxSearch entries under the ids "a" to "d", for the
\* searches of indexOf
SearchIds == {<<97>>, <<98>>, <<99>>, <<100>>}
SearchObjs == {[key |-> IdA, inhabitants |-> 0], [key |-> IdB, inhabitants |-> 1]}

\* the object stored under an id: those of "a" and "c" have the one value under
\* the comparator, those of "b" and "d" the other
SearchObj(id) == CHOOSE obj \in SearchObjs : obj.inhabitants = id[1] % 2

AddObjWithIdWide ==
  \E id \in SearchIds :
    LET obj == SearchObj(id)
        S == addObjWithId(This, id, obj)
    IN  /\ Len(S.ids) <= MaxSearch
        /\ Becomes(S)
        /\ Called("addObjWithId", id, obj, S.index)
        /\ Unwatch({id})

GetObjByIdWide ==
  \E id \in SearchIds :
    LET r == getObjById(This, id)
    IN  /\ Becomes(r.store)
        /\ Called("getObjById", id, NoObj, r.ret)
        /\ UNCHANGED watch

DeleteObjByIdWide ==
  \E id \in SearchIds :
    LET r == deleteObjById(This, id)
    IN  /\ Becomes(r.store)
        /\ Called("deleteObjById", id, NoObj, IF r.ret THEN 1 ELSE 0)
        /\ UNCHANGED watch

\* the calls of version 1, on a store of up to MaxSize entries under the
\* keys "a" and "b"
V1_Ids == {IdA, IdB}
V1_Objs == {[key |-> IdA, inhabitants |-> 0], [key |-> IdB, inhabitants |-> 1]}
V1_NewIncs == {1, 2, 3}

AddObj ==
  \E id \in V1_Ids, args \in V1_Objs \cup {NoObj} :
    LET V == addObj(v1, id, args)
    IN  /\ Len(V.keys) <= MaxSize
        /\ v1' = V
        /\ UNCHANGED v2vars

GetObj ==
  \E id \in V1_Ids, addIfNeeded \in BOOLEAN, args \in V1_Objs \cup {NoObj} :
    LET r == getObj(v1, id, addIfNeeded, args)
    IN  /\ Len(r.store.keys) <= MaxSize
        /\ v1' = r.store
        /\ UNCHANGED v2vars

SetObj ==
  \E id \in V1_Ids, newObj \in V1_Objs :
    LET V == setObj(v1, id, newObj)
    IN  /\ Len(V.keys) <= MaxSize
        /\ v1' = V
        /\ UNCHANGED v2vars

DeleteObj ==
  \E id \in V1_Ids :
    /\ v1' = deleteObj(v1, id).store
    /\ UNCHANGED v2vars

V1_Reset ==
  /\ v1' = V1_reset(v1)
  /\ UNCHANGED v2vars

SetCapaInc ==
  \E newInc \in V1_NewIncs :
    /\ v1' = setCapaInc(v1, newInc)
    /\ UNCHANGED v2vars

Next ==
  \/ AddObjWithId
  \/ SetObjWithId
  \/ AddObjFromArgs
  \/ GetObjById
  \/ DeleteObjById
  \/ DeleteObjFromArgs
  \/ ForEach_O
  \/ ForEach_IO
  \/ Reset
  \/ SetSorting
  \/ SetCompareCallback
  \/ SetCreateIdCallback

\* no call is traced
Init == InitStore /\ traced = {}

Spec == Init /\ [][Next]_vars

\* the three adding calls are traced
InitAdd == InitStore /\ traced = {"addObjWithId", "setObjWithId", "addObjFromArgs"}

SpecAdd == InitAdd /\ [][Next]_vars

\* deleted ids are watched
InitDelete == InitStore /\ traced = {"watch"}

SpecDelete == InitDelete /\ [][Next]_vars

\* the calls that look an id up are traced
InitLookup == InitStore /\ traced = {"getObjById", "deleteObjById"}

SpecLookup == InitLookup /\ [][Next]_vars

\* reset and the reconfiguring calls are traced
InitConfig == InitStore /\ traced = {"reset", "setSorting", "setCompareCallback", "setCreateIdCallback"}

SpecConfig == InitConfig /\ [][Next]_vars

\* no call is traced and the capacity increment is set as well
InitCapacity == InitStore /\ traced = {}

\* the calls that change the size, the capacity or the capacity increment,
\* entries being inserted under ids the caller gives
NextCapacity ==
  \/ AddObjWithId
  \/ SetObjWithId
  \/ GetObjById
  \/ DeleteObjById
  \/ DeleteObjFromArgs
  \/ Reset
  \/ SetSorting
  \/ SetCompareCallback
  \/ SetCapacityInc

SpecCapacity == InitCapacity /\ [][NextCapacity]_vars

\* the calls that make ids from arguments and that set how they are made are traced
InitFormat ==
  InitStore /\ traced = {"makeIdFromArgs", "setCapacityInc", "setIdSeparator",
                         "setIdNumDecimals", "setIdNumDigits"}

\* the calls that make ids from arguments or set how they are made
NextFormat ==
  \/ MakeIdFromArgs
  \/ SetCapacityInc
  \/ SetIdSeparator
  \/ SetIdNumDecimals
  \/ SetIdNumDigits

SpecFormat == InitFormat /\ [][NextFormat]_vars

\* the calls that make auto ids are traced
InitAutoId == InitStore /\ traced = {"makeIdFromArgs", "addObjFromArgs"}

\* the calls that make auto ids, empty the store or rebuild it, and the one
\* that sets the number of digits
NextAutoId ==
  \/ MakeIdFromArgs
  \/ AddObjFromArgs
  \/ DeleteObjFromArgs
  \/ Reset
  \/ SetSorting
  \/ SetCompareCallback
  \/ SetCreateIdCallback
  \/ SetIdNumDigits

SpecAutoId == InitAutoId /\ [][NextAutoId]_vars

\* no call is traced and entries are looked up by their values as well
InitArgs == InitStore /\ traced = {}

NextArgs ==
  \/ Next
  \/ GetObjFromArgs
  \/ GetIdFromArgs

SpecArgs == InitArgs /\ [][NextArgs]_vars

\* no call is traced and the store holds up to MaxSearch entries
InitSearch == InitStore /\ traced = {}

\* the calls by id on the larger store, and the reordering of it
NextSearch ==
  \/ AddObjWithIdWide
  \/ GetObjByIdWide
  \/ DeleteObjByIdWide
  \/ SetSorting

SpecSearch == InitSearch /\ [][NextSearch]_vars

\* a store of version 1 made by any of its constructors; the store of
\* version 2 is a default one that no call is made on
InitV1 ==
  /\ v1 \in {V1_Construct(ctor) : ctor \in V1_Ctors}
  /\ _ids = <<>>
  /\ _objects = <<>>
  /\ _index = -1
  /\ _capaInc = DefaultCapaInc
  /\ _added = FALSE
  /\ _autoId = AutoIdBase
  /\ _createIdCB = NoCB
  /\ capacity = 0
  /\ _idSep = DefaultIdSep
  /\ _idNumDigits = DefaultIdNumDigits
  /\ _idNumDecimals = DefaultIdNumDecimals
  /\ _sorting = "None"
  /\ _compareCB = NoCB
  /\ last = Idle
  /\ watch = <<>>
  /\ held = <<>>
  /\ traced = {}

\* the public interface of version 1
NextV1 ==
  \/ AddObj
  \/ GetObj
  \/ SetObj
  \/ DeleteObj
  \/ V1_Reset
  \/ SetCapaInc

SpecV1 == InitV1 /\ [][NextV1]_vars

\* a pointer that a call returned is held
InitPointer == InitStore /\ traced = {"held"}

\* the calls that return, move or invalidate pointers
NextPointer ==
  \/ AddObjWithId
  \/ SetObjWithId
  \/ AddObjFromArgs
  \/ GetObjById
  \/ DeleteObjById
  \/ DeleteObjFromArgs
  \/ Reset
  \/ SetSorting
  \/ SetCompareCallback
  \/ SetCreateIdCallback

SpecPointer == InitPointer /\ [][NextPointer]_vars

(* ------------------------------- claims --------------------------------- *)

Positions == 1..Len(_ids)
StoredIds == Range(_ids)

\* every id that a call can pass or that createId can make within the bounds
AllIds == UserIds \cup {IdB} \cup {StringifyUnsigned(AutoIdBase + k) : k \in 0..MaxAuto}

\* C1: no two stored entries have the same identifier, under every ordering
\* policy and after any sequence of calls.
C1_UniqueIds == \A i, j \in Positions : i # j => _ids[i] # _ids[j]

\* C2: the identifier sequence and the value sequence have the same length, and
\* getSize() is that length.
C2_LengthAlignment == Len(_ids) = Len(_objects) /\ getSize(This) = Len(_objects)

\* a full store whose capacity was raised by a recreate pass: inserts and a
\* reconfiguration have run
C2_Witness ==
  /\ Len(_ids) = MaxSize
  /\ Len(_objects) = MaxSize
  /\ capacity > DefaultCapaInc

\* C3: without comparator, in mode ASC the stored ids are in ascending strcmp
\* order, in mode DESC in descending strcmp order.
C3_IdOrder ==
  (_compareCB = NoCB) =>
    /\ (_sorting = "ASC") =>
         \A i, j \in Positions : i < j => StrCmp(_ids[i], _ids[j]) <= 0
    /\ (_sorting = "DESC") =>
         \A i, j \in Positions : i < j => StrCmp(_ids[i], _ids[j]) >= 0

\* a descending store without comparator holding different ids
C3_Witness ==
  /\ _compareCB = NoCB
  /\ _sorting = "DESC"
  /\ Len(_ids) = MaxSize
  /\ StrCmp(_ids[1], _ids[2]) > 0

\* C4: with a comparator set the entries are ordered by the comparator, and
\* entries whose values compare equal are ordered by id in the current mode.
C4_ComparatorOrder ==
  (_compareCB # NoCB) =>
    \A i, j \in Positions : i < j =>
      LET cmpRes == CallCompareCB(_compareCB, _objects[i], _objects[j])
      IN  /\ cmpRes <= 0
          /\ (cmpRes = 0 /\ _sorting = "ASC") => StrCmp(_ids[i], _ids[j]) <= 0
          /\ (cmpRes = 0 /\ _sorting = "DESC") => StrCmp(_ids[i], _ids[j]) >= 0

\* C5: getObjById(id) returns the entry stored under id if there is one, and
\* nullptr only if there is none.
C5_GetFindsStored ==
  \A id \in UserIds \cup StoredIds :
    LET r == getObjById(This, id)
    IN  IF id \in StoredIds
        THEN r.ret > -1 /\ _ids[r.ret + 1] = id
        ELSE r.ret = -1

AddOps == {"addObjWithId", "setObjWithId", "addObjFromArgs"}

\* C6: setObjWithId(id, v), or addObjWithId(id, args) building v, immediately
\* followed by getObjById(id) gives a non-null pointer to a stored value equal to v.
C6_SetThenGet ==
  (last.op \in {"addObjWithId", "setObjWithId"}) =>
    LET r == getObjById(This, last.id)
    IN  r.ret > -1 /\ _objects[r.ret + 1] = last.obj

\* C7: after deleteObjById(id) returned true, getObjById(id) returns nullptr
\* until id is inserted again.
C7_DeletedStaysGone ==
  \A i \in 1..Len(watch) : getObjById(This, watch[i]).ret = -1

\* C8: setObjWithId and addObjWithId are upserts: for an id not stored the size
\* grows by one and (id, value) is stored; for a stored id the size and the set
\* of ids stay the same and the value under id is the new value.
C8_Upsert ==
  [][(last'.op \in {"addObjWithId", "setObjWithId"}) =>
       IF last'.id \in Range(_ids)
       THEN /\ Len(_ids') = Len(_ids)
            /\ Range(_ids') = Range(_ids)
            /\ \E i \in 1..Len(_ids') : _ids'[i] = last'.id /\ _objects'[i] = last'.obj
       ELSE /\ Len(_ids') = Len(_ids) + 1
            /\ \E i \in 1..Len(_ids') : _ids'[i] = last'.id /\ _objects'[i] = last'.obj
    ]_vars

\* C9: right after addObjWithId, addObjFromArgs or setObjWithId, isAdded() is
\* true exactly if the call created a new entry.
C9_IsAdded ==
  [][(last'.op \in AddOps) => (_added' <=> (Len(_ids') = Len(_ids) + 1))]_vars

\* C10: addObjFromArgs either returns non-null, having added exactly one entry
\* under an id that was not stored, or the id was stored and it returns nullptr
\* leaving both sequences as they were.
C10_FreshEntry ==
  [][(last'.op = "addObjFromArgs") =>
       IF last'.ret # -1
       THEN /\ last'.id \notin Range(_ids)
            /\ Len(_ids') = Len(_ids) + 1
            /\ _ids'[last'.ret + 1] = last'.id
            /\ _objects'[last'.ret + 1] = last'.obj
            /\ EraseAt(_ids', last'.ret) = _ids
            /\ EraseAt(_objects', last'.ret) = _objects
       ELSE /\ last'.id \in Range(_ids)
            /\ _ids' = _ids
            /\ _objects' = _objects
    ]_vars

\* C11: getObjById(id) never inserts and changes no observable state: the ids,
\* the objects, the size, the sorting, the comparator, the capacity increment
\* and isAdded() are after the call what they were before, found or not.
C11_GetIsReadOnly ==
  [][(last'.op = "getObjById") =>
       /\ _ids' = _ids
       /\ _objects' = _objects
       /\ Len(_ids') = Len(_ids)
       /\ _sorting' = _sorting
       /\ _compareCB' = _compareCB
       /\ _capaInc' = _capaInc
       /\ _added' = _added
    ]_vars

\* a getObjById that missed in a full store right after an entry was added
C11_Witness ==
  /\ last.op = "getObjById"
  /\ last.ret = -1
  /\ Len(_ids) = MaxSize
  /\ _added

\* C12: when id is stored, deleteObjById(id) returns true and removes exactly
\* the entry with that id from both sequences; the size drops by one and the
\* other entries keep their values and their relative order.
C12_DeleteStored ==
  [][(last'.op = "deleteObjById" /\ last'.id \in Range(_ids)) =>
       /\ last'.ret = 1
       /\ Len(_ids') = Len(_ids) - 1
       /\ \E i \in 1..Len(_ids) :
            /\ _ids[i] = last'.id
            /\ _ids' = EraseAt(_ids, i - 1)
            /\ _objects' = EraseAt(_objects, i - 1)
    ]_vars

\* C13: when id is not stored, deleteObjById(id) returns false and leaves the
\* ids, the objects and the size as they were; nothing but the return value
\* tells of the failure (isAdded() and the configuration are untouched).
C13_DeleteMissing ==
  [][(last'.op = "deleteObjById" /\ last'.id \notin Range(_ids)) =>
       /\ last'.ret = 0
       /\ _ids' = _ids
       /\ _objects' = _objects
       /\ Len(_ids') = Len(_ids)
       /\ _added' = _added
       /\ _sorting' = _sorting
       /\ _compareCB' = _compareCB
    ]_vars

\* a deleteObjById that failed on a full sorted store, the missing id sorting
\* before a stored one
C13_Witness ==
  /\ last.op = "deleteObjById"
  /\ last.ret = 0
  /\ last.id \notin StoredIds
  /\ Len(_ids) = MaxSize
  /\ _index < MaxSize

\* C14: after reset(), from whatever state, the store is empty: getSize() is 0,
\* forEach invokes its callback not once, getObjById returns nullptr for every
\* id; and a second reset() gives the same empty store.
C14_ResetEmpties ==
  (last.op = "reset") =>
    /\ _ids = <<>>
    /\ _objects = <<>>
    /\ getSize(This) = 0
    /\ \A cb \in ForEachCBs : forEach_O(This, cb) = <<>> /\ forEach_IO(This, cb) = <<>>
    /\ \A id \in AllIds : getObjById(This, id).ret = -1
    /\ reset(This) = This

\* reset() was called on a full store whose cached position was past the first
\* entry, and after entries had been added
C14_Witness ==
  /\ last.op = "reset"
  /\ _index > 0
  /\ _added
  /\ capacity > 0

\* the ids and objects held after (id1, obj1) and then (id2, obj2) were put
\* into the store S
AfterTwoInserts(S, id1, obj1, id2, obj2) ==
  LET S2 == setObjWithId(addObjWithId(S, id1, obj1), id2, obj2)
  IN  <<S2.ids, S2.objects>>

Visits(cb) == IF cb <= Len(_objects) THEN cb ELSE Len(_objects)

\* C16: forEach, in both forms, invokes the callback for the positions 0, 1, ...
\* in storage order, once each, passing the object (and the id) stored at that
\* position; it makes no invocation after the first one that returned false
\* and visits every entry if the callback always returns true.
C16_ForEachOrder ==
  \A cb \in ForEachCBs :
    /\ forEach_IO(This, cb) = [i \in 1..Visits(cb) |-> <<_ids[i], _objects[i]>>]
    /\ forEach_O(This, cb) = [i \in 1..Visits(cb) |-> <<_objects[i]>>]

\* a full store with different entries on which forEach stops after the first
\* entry for one callback and visits both entries for another
C16_Witness ==
  /\ Len(_ids) = MaxSize
  /\ _ids[1] # _ids[2]
  /\ _objects[1] # _objects[2]
  /\ Len(forEach_IO(This, 1)) = 1
  /\ Len(forEach_O(This, MaxSize + 1)) = MaxSize

\* the first position of seq that holds x
PosIn(seq, x) == CHOOSE k \in 1..Len(seq) : seq[k] = x /\ \A l \in 1..(k - 1) : seq[l] # x

\* C17: with sorting None and no comparator the entries stay in insertion
\* order: whatever call is made (but setCreateIdCallback, which makes new ids),
\* the ids that stay stored keep their relative order and every id that is
\* new stands behind all that were stored; replacing a value moves nothing.
C17_InsertionOrder ==
  [][(/\ _sorting = "None" /\ _compareCB = NoCB
      /\ _sorting' = "None" /\ _compareCB' = NoCB
      /\ last'.op # "setCreateIdCallback") =>
       /\ \A x, y \in Range(_ids) \cap Range(_ids') :
            (PosIn(_ids, x) < PosIn(_ids, y)) => (PosIn(_ids', x) < PosIn(_ids', y))
       /\ \A k, l \in 1..Len(_ids') :
            (_ids'[k] \notin Range(_ids) /\ _ids'[l] \in Range(_ids)) => l < k
       /\ (Range(_ids') = Range(_ids)) => (_ids' = _ids)
    ]_vars

\* an unsorted store to which a smaller id was added after a greater one
C17_Witness ==
  /\ _sorting = "None"
  /\ _compareCB = NoCB
  /\ _added
  /\ _index = 1
  /\ _ids = <<IdA, StringifyUnsigned(AutoIdBase)>>

\* the set of (id, object) pairs held by the two sequences
PairsOf(ids, objects) == {<<ids[i], objects[i]>> : i \in 1..Len(ids)}

\* C18: in a store without comparator, setSorting(ASC) or setSorting(DESC) that
\* changes the mode keeps exactly the (id, object) pairs and leaves them in
\* ascending (ASC) or descending (DESC) order of the ids.
C18_SetSortingResorts ==
  [][(/\ last'.op = "setSorting"
      /\ _compareCB = NoCB
      /\ _sorting' # _sorting
      /\ _sorting' \in {"ASC", "DESC"}) =>
       /\ PairsOf(_ids', _objects') = PairsOf(_ids, _objects)
       /\ Len(_ids') = Len(_ids)
       /\ (_sorting' = "ASC") =>
            \A i, j \in 1..Len(_ids') : i < j => StrCmp(_ids'[i], _ids'[j]) < 0
       /\ (_sorting' = "DESC") =>
            \A i, j \in 1..Len(_ids') : i < j => StrCmp(_ids'[i], _ids'[j]) > 0
    ]_vars

\* setSorting left a full descending store without comparator, its capacity
\* that of a recreate pass over two entries
C18_Witness ==
  /\ last.op = "setSorting"
  /\ _compareCB = NoCB
  /\ _sorting = "DESC"
  /\ Len(_ids) = MaxSize
  /\ StrCmp(_ids[1], _ids[2]) > 0
  /\ capacity = MaxSize + DefaultCapaInc

\* C19: setCompareCallback(cb) on a store with unique ids keeps exactly the
\* (id, object) pairs and the size and arranges them by the new policy: by cb,
\* entries that compare equal by id in the current mode, if cb is not null; by
\* id if cb is nullptr and the mode is ASC or DESC.
C19_SetCompareCallbackResorts ==
  [][(/\ last'.op = "setCompareCallback"
      /\ \A i, j \in 1..Len(_ids) : i # j => _ids[i] # _ids[j]) =>
       /\ PairsOf(_ids', _objects') = PairsOf(_ids, _objects)
       /\ Len(_ids') = Len(_ids)
       /\ \A i, j \in 1..Len(_ids') : i < j =>
            LET idRes == StrCmp(_ids'[i], _ids'[j])
                cmpRes == IF _compareCB' # NoCB
                          THEN CallCompareCB(_compareCB', _objects'[i], _objects'[j])
                          ELSE 0
            IN  /\ cmpRes <= 0
                /\ (cmpRes = 0 /\ _sorting' = "ASC") => idRes <= 0
                /\ (cmpRes = 0 /\ _sorting' = "DESC") => idRes >= 0
    ]_vars

\* how often the object o occurs in the sequence objects
CountOf(objects, o) == Cardinality({i \in 1..Len(objects) : objects[i] = o})

C21_PointerStable ==
  held # <<>> =>
    /\ held[1].slot < Len(_ids)
    /\ _ids[held[1].slot + 1] = held[1].id

\* the stores that differ from S in the capacity increment and the capacity only
CapaVariants(S) ==
  {[S EXCEPT !.capaInc = c, !.capacity = k] :
     c \in {DefaultCapaInc} \cup {n \in NewIncs : n > 1},
     k \in Len(S.ids)..(Len(S.ids) + Cardinality(NewIncs))}

\* what can be observed of a store: all but the capacity increment and the capacity
Observable(S) == [S EXCEPT !.capaInc = 0, !.capacity = 0]

\* what can be observed of a call: its result and the store it leaves
ObservableCall(r) == [r EXCEPT !.store = Observable(r.store)]

\* C22: capacity growth is not observable.  Whatever call is made on the store
\* and on a store that differs from it only in the capacity increment and the
\* capacity, both return the same and are left with the same ids, objects,
\* size, isAdded() and configuration, differing again in nothing but the
\* capacity increment and the capacity; so two such stores stay in step over
\* every sequence of calls.
C22_CapacityUnobservable ==
  \A V \in CapaVariants(This) :
    /\ getSize(V) = getSize(This) /\ isAdded(V) = isAdded(This)
    /\ \A id \in UserIds, obj \in Objs :
         /\ Observable(addObjWithId(V, id, obj)) = Observable(addObjWithId(This, id, obj))
         /\ Observable(setObjWithId(V, id, obj)) = Observable(setObjWithId(This, id, obj))
    /\ \A obj \in Objs :
         /\ ObservableCall(addObjFromArgs(V, obj)) = ObservableCall(addObjFromArgs(This, obj))
         /\ ObservableCall(deleteObjFromArgs(V, obj)) = ObservableCall(deleteObjFromArgs(This, obj))
         /\ ObservableCall(getObjFromArgs(V, obj)) = ObservableCall(getObjFromArgs(This, obj))
         /\ ObservableCall(getIdFromArgs(V, obj)) = ObservableCall(getIdFromArgs(This, obj))
    /\ \A id \in UserIds :
         /\ ObservableCall(getObjById(V, id)) = ObservableCall(getObjById(This, id))
         /\ ObservableCall(deleteObjById(V, id)) = ObservableCall(deleteObjById(This, id))
    /\ \A cb \in ForEachCBs :
         /\ forEach_O(V, cb) = forEach_O(This, cb)
         /\ forEach_IO(V, cb) = forEach_IO(This, cb)
    /\ Observable(reset(V)) = Observable(reset(This))
    /\ \A sorting \in Sortings :
         Observable(setSorting(V, sorting)) = Observable(setSorting(This, sorting))
    /\ \A callback \in CompareCBs \cup {NoCB} :
         Observable(setCompareCallback(V, callback)) = Observable(setCompareCallback(This, callback))
    /\ \A callback \in CreateIdCBs \cup {NoCB} :
         Observable(setCreateIdCallback(V, callback)) = Observable(setCreateIdCallback(This, callback))

\* a store with the capacity increment 2 has grown twice, to capacity 3
C22_Witness == _capaInc = 2 /\ capacity = 3 /\ Len(_ids) = 2

\* C23: the reserved capacity never decreases, whatever the call (deletions,
\* reset and the recreate pass of a reconfiguration included), and it is at
\* least the size in every state.
C23_CapacityNeverShrinks ==
  /\ capacity >= Len(_ids)
  /\ [][capacity' >= capacity /\ capacity' >= Len(_ids')]_vars

\* a store that grew to capacity 3 (increment 2) is empty again
C23_Witness == capacity = 3 /\ _ids = <<>> /\ _capaInc = 2

\* C24: the capacity is increased only by an insertion that finds the
\* capacity used up (size = capacity before the insertion), and then to the
\* size (before or after the insertion) plus the capacity increment.
C24_GrowsWhenUsedUp ==
  [][capacity' > capacity =>
       /\ Len(_ids') = Len(_ids) + 1
       /\ Len(_ids) = capacity
       /\ capacity' \in {Len(_ids) + _capaInc, Len(_ids') + _capaInc}]_vars

\* C25: an invalid configuration value is ignored: setCapacityInc(n) with
\* n <= 1, setIdNumDigits(0), setIdNumDecimals(0) and setIdSeparator("") leave
\* the getter's result and all other state as they were, and a valid value
\* (n > 1, a width > 0, a non-empty separator) is what the getter returns after
\* the call.
C25_InvalidConfigIgnored ==
  [][/\ last'.op = "setCapacityInc" =>
          IF last'.ret > 1 THEN getCapacityInc(This)' = last'.ret ELSE This' = This
     /\ last'.op = "setIdNumDigits" =>
          IF last'.ret > 0 THEN getIdNumDigits(This)' = last'.ret ELSE This' = This
     /\ last'.op = "setIdNumDecimals" =>
          IF last'.ret > 0 THEN getIdNumDecimals(This)' = last'.ret ELSE This' = This
     /\ last'.op = "setIdSeparator" =>
          IF last'.id # EmptyId THEN getIdSeparator(This)' = last'.id ELSE This' = This]_vars

\* setIdNumDigits(0) was called on a store whose number of digits had been set to 3
C25_Witness == last.op = "setIdNumDigits" /\ last.ret = 0 /\ getIdNumDigits(This) = 3

\* the decimal digits of n >= 0 with zeros in front up to the width w
PadLeft(n, w) ==
  LET d == Digits(n)
  IN  IF Len(d) >= w THEN d ELSE [i \in 1..(w - Len(d)) |-> 48] \o d

\* the rendering of one argument in an id: an integer zero-padded to the
\* width w (the sign of a negative one taking a place, as printf pads), a
\* string or a character verbatim
Rendered(arg, w) ==
  IF arg.type \in {"signed", "unsigned"}
  THEN IF arg.value < 0 THEN <<45>> \o PadLeft(0 - arg.value, w - 1) ELSE PadLeft(arg.value, w)
  ELSE IF arg.type = "char" THEN <<arg.value>> ELSE arg.value

\* the renderings of the first n arguments, the separator sep between them
RECURSIVE Joined(_, _, _, _)
Joined(args, n, w, sep) ==
  IF n = 0 THEN <<>>
  ELSE IF n = 1 THEN Rendered(args[1], w)
  ELSE Joined(args, n - 1, w, sep) \o sep \o Rendered(args[n], w)

\* C26: makeIdFromArgs with one or more arguments returns the renderings of
\* its arguments (integers zero-padded to the number of digits set, strings
\* and characters verbatim) in their order, joined by the separator set, and
\* leaves the store as it is, entries and auto-id counter included; with the
\* defaults (42, "x") gives "00000042#/#x" and ("text", 1234) gives
\* "text#/#00001234".
C26_MakeIdFromArgs ==
  [][(last'.op = "makeIdFromArgs" /\ Len(MakeIdArgs[last'.ret]) > 0) =>
       /\ last'.id = Joined(MakeIdArgs[last'.ret], Len(MakeIdArgs[last'.ret]), _idNumDigits, _idSep)
       /\ This' = This
       /\ (_idNumDigits = DefaultIdNumDigits /\ _idSep = DefaultIdSep) =>
            /\ last'.ret = 2 => last'.id = <<48, 48, 48, 48, 48, 48, 52, 50, 35, 47, 35, 120>>
            /\ last'.ret = 3 => last'.id = <<116, 101, 120, 116, 35, 47, 35, 48, 48, 48, 48, 49, 50, 51, 52>>]_vars

\* C27: the number of digits set with setIdNumDigits governs every integer
\* argument of makeIdFromArgs, unsigned as well as signed, and the auto ids
\* made from the counter: the id of makeIdFromArgs() is the counter's value
\* zero-padded to that width and the id made from arguments has every integer
\* zero-padded to it.
C27_DigitsGovernIntegers ==
  last.op = "makeIdFromArgs" =>
    LET args == MakeIdArgs[last.ret]
    IN  IF Len(args) = 0 THEN last.id = PadLeft(_autoId - 1, _idNumDigits)
        ELSE last.id = Joined(args, Len(args), _idNumDigits, _idSep)

\* the auto id of the counter value n: n zero-padded to 8 places
AutoIdOf(n) == PadLeft(n, DefaultIdNumDigits)

\* the step is a call that makes one auto id: makeIdFromArgs() or, with no
\* create-id callback set, addObjFromArgs
MakesAutoId ==
  \/ last'.op = "makeIdFromArgs" /\ Len(MakeIdArgs[last'.ret]) = 0
  \/ last'.op = "addObjFromArgs" /\ _createIdCB = NoCB

\* C28: with no create-id callback set, the auto ids come from one counter that
\* starts at 10000, advances by one with each id made and is never set back
\* (not by reset nor by a reconfiguration): a call that makes an auto id
\* returns the counter's value zero-padded to 8 places ("00010000",
\* "00010001", ...), an id no earlier value of the counter gave, and advances
\* the counter by one; a recreate pass that gives the n entries new auto ids
\* uses the next n values; no other call changes the counter.
C28_AutoIdCounter ==
  /\ _autoId = AutoIdBase
  /\ [][IF MakesAutoId
        THEN /\ last'.id = AutoIdOf(_autoId)
             /\ _autoId' = _autoId + 1
             /\ \A n \in AutoIdBase..(_autoId - 1) : AutoIdOf(n) # last'.id
        ELSE IF _autoId' # _autoId
        THEN /\ _createIdCB' = NoCB
             /\ _autoId' = _autoId + Len(_ids')
             /\ Range(_ids') = {AutoIdOf(n) : n \in _autoId..(_autoId' - 1)}
        ELSE TRUE]_vars

\* addObjFromArgs stored an entry under the second auto id in a store that
\* holds no other entry, the first id being used up
C28_Witness ==
  /\ last.op = "addObjFromArgs" /\ last.ret # -1
  /\ last.id = AutoIdOf(AutoIdBase + 1)
  /\ _ids = <<last.id>>

\* C29: with a compare callback set, getObjFromArgs returns a pointer to an
\* entry whose object compares equal (callback result 0) to the object built
\* from the arguments whenever there is such an entry, and nullptr exactly
\* when there is none; it never returns an entry that compares unequal and it
\* leaves ids, objects and settings as they are.
C29_GetObjFromArgs ==
  _compareCB # NoCB =>
    \A obj \in Objs :
      LET r == getObjFromArgs(This, obj)
          Equal(i) == CallCompareCB(_compareCB, _objects[i], obj) = 0
      IN  /\ r.ret # -1 => (r.ret < Len(_objects) /\ Equal(r.ret + 1))
          /\ r.ret = -1 <=> ~(\E i \in Positions : Equal(i))
          /\ [r.store EXCEPT !.index = _index] = This

\* C30: for an object that is stored, getIdFromArgs with its constructor
\* arguments returns an id under which this object is stored, and it returns
\* the empty string only when no such object is stored.
C30_GetIdFromArgs ==
  \A obj \in Objs :
    LET r == getIdFromArgs(This, obj)
    IN  /\ obj \in Range(_objects) => <<r.ret, obj>> \in PairsOf(_ids, _objects)
        /\ r.ret = EmptyId => obj \notin Range(_objects)

\* the entry at position i matches the object built from the arguments: it
\* compares equal under the compare callback if one is set, and is equal to it
\* otherwise
Matches(i, obj) ==
  IF _compareCB # NoCB THEN CallCompareCB(_compareCB, _objects[i], obj) = 0
  ELSE _objects[i] = obj

\* C31: deleteObjFromArgs returns true exactly when an entry whose object
\* matches the object built from the arguments is stored, and then removes
\* exactly one such entry, the others keeping their ids, objects and order;
\* otherwise it returns false and leaves ids and objects unchanged.
C31_DeleteObjFromArgs ==
  \A obj \in Objs :
    LET r == deleteObjFromArgs(This, obj)
    IN  /\ r.ret <=> \E i \in Positions : Matches(i, obj)
        /\ r.ret => \E i \in Positions :
                      /\ Matches(i, obj)
                      /\ r.store.ids = EraseAt(_ids, i - 1)
                      /\ r.store.objects = EraseAt(_objects, i - 1)
        /\ ~r.ret => (r.store.ids = _ids /\ r.store.objects = _objects)

\* the store with nothing cached: the fast path of indexOf is not taken and
\* the next call makes the full search
Uncached(S) == [S EXCEPT !.index = -1]

\* a call made with the cache and one made without it agree: on the pointer
\* returned (.index of a store that addObjWithId or setObjWithId leaves), on
\* the result (.ret) and on the store they leave, the cache apart
SameStore(S, T) == Uncached(S) = Uncached(T)
SamePointer(S, T) == S.index = T.index /\ SameStore(S, T)
SameCall(r, t) == r.ret = t.ret /\ SameStore(r.store, t.store)

\* C34: the cached index is a pure optimisation.  Whatever call is made, it
\* returns the same and leaves the same ids, objects and settings when indexOf
\* takes its fast path as when it makes the full search; so a store that
\* caches and one that always searches stay in step over every sequence of
\* calls, and the outcome of setObjWithId or of a lookup by value does not
\* depend on the entry probed last.
C34_CacheIsOptimisation ==
  /\ \A id \in UserIds, obj \in Objs :
       /\ SamePointer(addObjWithId(This, id, obj), addObjWithId(Uncached(This), id, obj))
       /\ SamePointer(setObjWithId(This, id, obj), setObjWithId(Uncached(This), id, obj))
  /\ \A obj \in Objs :
       /\ SameCall(addObjFromArgs(This, obj), addObjFromArgs(Uncached(This), obj))
       /\ SameCall(deleteObjFromArgs(This, obj), deleteObjFromArgs(Uncached(This), obj))
       /\ SameCall(getObjFromArgs(This, obj), getObjFromArgs(Uncached(This), obj))
       /\ SameCall(getIdFromArgs(This, obj), getIdFromArgs(Uncached(This), obj))
  /\ \A id \in UserIds :
       /\ SameCall(getObjById(This, id), getObjById(Uncached(This), id))
       /\ SameCall(deleteObjById(This, id), deleteObjById(Uncached(This), id))
  /\ \A sorting \in Sortings :
       SameStore(setSorting(This, sorting), setSorting(Uncached(This), sorting))
  /\ \A callback \in CompareCBs \cup {NoCB} :
       SameStore(setCompareCallback(This, callback), setCompareCallback(Uncached(This), callback))
  /\ \A callback \in CreateIdCBs \cup {NoCB} :
       SameStore(setCreateIdCallback(This, callback), setCreateIdCallback(Uncached(This), callback))

\* the entries of S stored under another id than id, as <<id, object>> in
\* their order
OtherEntries(S, id) ==
  SelectSeq([i \in 1..Len(S.ids) |-> <<S.ids[i], S.objects[i]>>], LAMBDA e : e[1] # id)

\* C35: addObjWithId(id, ...) and setObjWithId(id, v) change at most the
\* entry with the id given, whatever the sorting and the id, the empty one
\* included: the entries stored under other ids keep their ids, their
\* objects and their order.
C35_OtherEntriesKept ==
  \A id \in UserIds, obj \in Objs :
    /\ OtherEntries(addObjWithId(This, id, obj), id) = OtherEntries(This, id)
    /\ OtherEntries(setObjWithId(This, id, obj), id) = OtherEntries(This, id)

\* C36: setSorting with the mode the store has changes nothing, and
\* setSorting(None) leaves ids and objects exactly as they were; after it,
\* with no compare callback set, an entry added under a new id comes last.
C36_SetSortingFrame ==
  [][last'.op = "setSorting" =>
       /\ _sorting' = _sorting => This' = This
       /\ _sorting' = "None" =>
            /\ _ids' = _ids /\ _objects' = _objects
            /\ _compareCB' = NoCB =>
                 \A id \in UserIds \ Range(_ids), obj \in Objs :
                   /\ addObjWithId(This', id, obj).ids = Append(_ids, id)
                   /\ addObjWithId(This', id, obj).objects = Append(_objects, obj)
                   /\ setObjWithId(This', id, obj).ids = Append(_ids, id)
                   /\ setObjWithId(This', id, obj).objects = Append(_objects, obj)]_vars

\* setSorting(None) was called on a store without compare callback that holds
\* "a" in front of ""
C36_Witness ==
  /\ last.op = "setSorting" /\ _sorting = "None" /\ _compareCB = NoCB
  /\ _ids = <<IdA, EmptyId>>

\* C37: isAdded() changes only through addObjWithId, addObjFromArgs and
\* setObjWithId: every other call (lookups, deletions, reset, forEach,
\* setSorting, setCompareCallback, setCreateIdCallback) leaves it as it was.
C37_IsAddedFrame ==
  [][last'.op \notin AddOps => isAdded(This)' = isAdded(This)]_vars

\* indexOf on the store S, whatever is looked for, either reports a position
\* of the sequences or reports -1 and leaves an insert position
IndexInRange(S) ==
  \A id \in AllIds, obj \in Objs \cup {NoObj} :
    LET r == indexOf(S, id, obj)
    IN  IF r.ret # -1
        THEN r.ret = r.index /\ 0 <= r.index /\ r.index < Len(S.ids) /\ r.index < Len(S.objects)
        ELSE 0 <= r.index /\ r.index <= Len(S.ids) /\ r.index <= Len(S.objects)

\* the stores the recreate passes of the reconfiguring calls go through
RecreateStores ==
  UNION ({Range(recreateTrail([This EXCEPT !.sorting = sorting], TRUE)) :
            sorting \in (Sortings \ {"None", _sorting})}
         \cup {Range(recreateTrail([This EXCEPT !.compareCB = callback], TRUE)) :
                  callback \in CompareCBs \cup {NoCB}}
         \cup {Range(recreateTrail([This EXCEPT !.createIdCB = callback], FALSE)) :
                  callback \in CreateIdCBs \cup {NoCB}})

\* C38: no call indexes outside the sequences.  Every read, overwrite, erase
\* and insert at _index follows an indexOf in the same call: whatever is
\* looked for, and however stale the cached index is (after a deletion, a
\* reset or within a recreate pass), indexOf either reports a position of
\* the sequences (0 <= _index < size), which is then read, overwritten or
\* erased, or reports -1 and leaves an insert position (0 <= _index <= size).
C38_IndexInRange ==
  /\ _index >= -1
  /\ IndexInRange(This)
  /\ \A S \in RecreateStores : IndexInRange(S)

\* the cached index is stale: it points behind the end of a store that was
\* emptied
C38_Witness == _ids = <<>> /\ _index > 0

\* the ids looked up in the larger store: the ones stored and the empty one
SearchProbes == SearchIds \cup {EmptyId}

\* floor(log2(n)) for n >= 1
Log2Floor(n) == CHOOSE k \in 0..n : 2^k <= n /\ n < 2^(k + 1)

\* the calls of recreate that a reconfiguration of the store makes
RecreateCalls ==
  {[store |-> [This EXCEPT !.sorting = sorting], preserveIds |-> TRUE] :
      sorting \in (Sortings \ {"None", _sorting})}
  \cup {[store |-> [This EXCEPT !.compareCB = callback], preserveIds |-> TRUE] :
           callback \in CompareCBs \cup {NoCB}}
  \cup {[store |-> [This EXCEPT !.createIdCB = callback], preserveIds |-> FALSE] :
           callback \in CreateIdCBs \cup {NoCB}}

\* C39: every search ends after a bounded number of comparisons: the window of
\* the ordered search shrinks with every comparison, so that the search of a
\* store of n entries compares at most floor(log2(n)) + 1 of them (none when
\* n = 0), the unordered scan at most n, and recreate makes exactly n
\* re-insertions, after which it has its result.
C39_SearchesAreBounded ==
  LET n == Len(_ids)
  IN  /\ \A id \in SearchProbes, obj \in SearchObjs \cup {NoObj} :
            /\ LowerBoundProbes(This, 0, n, id, obj)
                  <= (IF n = 0 THEN 0 ELSE Log2Floor(n) + 1)
            /\ LinearScanProbes(This, 0, id) <= n
      /\ \A count \in 1..n :
            LET step == count \div 2
            IN  step < count /\ count - (step + 1) < count /\ count - (step + 1) >= 0
      /\ \A c \in RecreateCalls :
            LET t == recreateTrail(c.store, c.preserveIds)
            IN  IF n = 0 THEN t = <<>>
                ELSE /\ Len(t) = n + 1
                     /\ t[Len(t)] = recreate(c.store, c.preserveIds)

\* a full store in A-Z order whose first id was just looked up, the search
\* that takes the most comparisons
C39_Witness ==
  /\ _sorting = "ASC" /\ _compareCB = NoCB
  /\ _ids = <<<<97>>, <<98>>, <<99>>, <<100>>>>
  /\ _index = 0
  /\ LowerBoundProbes(This, 0, MaxSearch, <<97>>, NoObj) = Log2Floor(MaxSearch) + 1
  /\ Log2Floor(MaxSearch) + 1 < MaxSearch

\* the ids stored that go strictly before id under the mode of the store
IdsBefore(S, id) == {i \in 1..Len(S.ids) : compareIds(S, S.ids[i], id) < 0}

\* C40: without a comparator, a search that misses id leaves in _index,
\* in an ordered mode, the number of stored ids that go strictly before id
\* under that mode, so that the ids stay in order when id is inserted there,
\* and in the unordered mode the number of entries.
C40_InsertPosition ==
  (_compareCB = NoCB) =>
    \A id \in SearchProbes :
      LET r == indexOf(This, id, NoObj)
          ids == InsertAt(_ids, r.index, id)
      IN  (r.ret = -1) =>
            IF _sorting = "None" THEN r.index = Len(_ids)
            ELSE /\ r.index = Cardinality(IdsBefore(This, id))
                 /\ \A i, j \in 1..Len(ids) :
                       i < j => compareIds(This, ids[i], ids[j]) <= 0

\* three ids in Z-A order and a fourth one that goes between them
C40_Witness ==
  /\ _sorting = "DESC" /\ _compareCB = NoCB
  /\ _ids = <<<<100>>, <<99>>, <<97>>>>
  /\ indexOf(This, <<98>>, NoObj) = [ret |-> -1, index |-> 2]

\* the keys of the store of version 1 are in A to Z order
V1_KeysAtoZ == \A i, j \in 1..Len(v1.keys) : i < j => StrCmp(v1.keys[i], v1.keys[j]) < 0

\* a call has added an entry to the store of version 1 at its end
V1_AddedAtEnd ==
  (Len(v1'.keys) = Len(v1.keys) + 1) =>
    /\ SubSeq(v1'.keys, 1, Len(v1.keys)) = v1.keys
    /\ SubSeq(v1'.objects, 1, Len(v1.keys)) = v1.objects

\* C32: a store of version 1 made with spObjectStore(true) has its keys in
\* A to Z order, and one made with spObjectStore(false) keeps its entries in
\* the order they were added in, as the store made with spObjectStore() does.
C32_SortedArgument ==
  /\ []((v1.ctor = "spObjectStore(true)") => V1_KeysAtoZ)
  /\ [][(v1.ctor \in {"spObjectStore(false)", "spObjectStore()"}) => V1_AddedAtEnd]_vars

\* C33: after setCapaInc(n) with n > 1 getCapaInc() returns n, and an addition
\* that expands the capacity of the store of version 1 reserves room for the
\* increment set on top of the entries stored or of the capacity it had.
C33_CapaIncGovernsGrowth ==
  /\ [](\A n \in V1_NewIncs : (n > 1) => getCapaInc(setCapaInc(v1, n)) = n)
  /\ [][(v1'.capacity # v1.capacity) =>
          v1'.capacity \in {Len(v1.keys) + getCapaInc(v1), v1.capacity + getCapaInc(v1)}]_vars

====
